---- MODULE Spec2Model ----
(***************************************************************************)
(* A state-machine model of sigma_scale (sofia/sigma_cube.py): the noise   *)
(* scaling of a 3-D data cube, by whole planes ("global") or on a grid of  *)
(* cells with measurement windows ("local").                               *)
(*                                                                         *)
(* Arithmetic is that of the interpreter the slices of the function are    *)
(* well formed under: "/" on two integers is floor division (lines 42-43,  *)
(* 73-75, 83-84), so every bound handed to a slice is an integer.          *)
(*                                                                         *)
(* GetRMS lives in sofia/functions.py and is not part of this model: a     *)
(* call to it is a choice of one value out of RmsVals.  The region it is   *)
(* called on is recorded in rmsArg.                                        *)
(***************************************************************************)
EXTENDS Integers, Sequences, FiniteSets, TLC

\* ------------------------------------------------------------------ bounds
\* Cubes of the full runs (Spec) hold at most MaxVoxels voxels, at most MaxLen
\* along an axis.
MaxVoxels == 6
MaxLen == 3
\* Edge arguments of the full runs are 0..MaxEdge.
MaxEdge == 1
\* GetRMS returns a value in 0..MaxRms.
MaxRms == 2
\* Window and grid arguments of the full runs are 1..MaxSize, the same on the
\* spatial and the spectral axis.
MaxSize == 4
\* Grid construction runs (SpecGrid): every axis is 1..MaxDim long, the four
\* window and grid arguments are 1..MaxArg, independently.
MaxDim == 5
MaxArg == 5

\* ------------------------------------------------------------- the values
\* A voxel is a float: NaN, +inf, -inf or the rational n/d (d > 0).
NaN == [k |-> "nan", n |-> 0, d |-> 1]
Inf == [k |-> "inf", n |-> 1, d |-> 1]
NegInf == [k |-> "inf", n |-> -1, d |-> 1]
Num(n, d) == [k |-> "num", n |-> n, d |-> d]

IsNaN(v) == v.k = "nan"

Abs(a) == IF a < 0 THEN -a ELSE a
Sgn(a) == IF a < 0 THEN -1 ELSE IF a > 0 THEN 1 ELSE 0

RECURSIVE Gcd(_, _)
Gcd(a, b) == IF b = 0 THEN a ELSE Gcd(b, a % b)

\* v / r for an integer r, as numpy's float division gives it.
Div(v, r) ==
    IF v.k = "nan" THEN NaN
    ELSE IF v.k = "inf" THEN
        (IF r < 0 THEN [v EXCEPT !.n = -v.n] ELSE v)
    ELSE IF r = 0 THEN
        (IF v.n = 0 THEN NaN ELSE IF v.n > 0 THEN Inf ELSE NegInf)
    ELSE IF v.n = 0 THEN Num(0, 1)
    ELSE LET n == v.n * Sgn(r)
             d == v.d * Abs(r)
             g == Gcd(Abs(n), d)
         IN  Num(n \div g, d \div g)

RmsVals == 0..MaxRms


\* ------------------------------------------------------------- the state
VARIABLES
    pc,              \* where the call is: "start", "check", "grid", "iterate",
                     \* "divide", "scaleZ", "scaleY", "scaleX", "finish",
                     \* "done" (returned), "exit" (sys.exit), "raise" (exception)
    cube,            \* the cube, scaled in place
    dimensions,      \* np.shape(cube)
    scaleX, scaleY, scaleZ,
    edgeX, edgeY, edgeZ,
    method,
    windowSpatial, windowSpectral, gridSpatial, gridSpectral,
    rms, rmsBound,   \* the local name rms, and whether it has been assigned
    i,               \* the loop index of the pass that runs
    rms_cube,        \* the noise map of the local method
    gridList, windowList,
    k,               \* how many (grid, window) pairs have been iterated over
    stderr, exitStatus,
    \* what the call was made with
    cube0, args,
    \* what has happened
    rmsArg,          \* the region of the last GetRMS call, << >> before it
    passes           \* the passes of the global method that have ended, in order

params == <<scaleX, scaleY, scaleZ, edgeX, edgeY, edgeZ, method>>
sizes == <<windowSpatial, windowSpectral, gridSpatial, gridSpectral>>
lists == <<rms_cube, gridList, windowList, k>>
io == <<stderr, exitStatus>>
given == <<cube0, args, dimensions>>
vars == <<pc, cube, params, sizes, rms, rmsBound, i, lists, io, given, rmsArg, passes>>

\* ----------------------------------------------------------- the geometry
Max(a, b) == IF a > b THEN a ELSE b
Min(a, b) == IF a < b THEN a ELSE b

VoxelsOf(dim) == (0..(dim[1] - 1)) \X (0..(dim[2] - 1)) \X (0..(dim[3] - 1))
Voxels == VoxelsOf(dimensions)

\* cube[b[1]:b[2], b[3]:b[4], b[5]:b[6]], as the set of its indices.
Slice(b) ==
    {v \in Voxels : /\ b[1] <= v[1] /\ v[1] < b[2]
                    /\ b[3] <= v[2] /\ v[2] < b[4]
                    /\ b[5] <= v[3] /\ v[3] < b[6]}

\* np.all(np.isnan(cube[...])): true of an empty slice.
AllNaN(c, b) == \A v \in Slice(b) : IsNaN(c[v])

\* The range over which statistics are calculated.
z1 == edgeZ
z2 == dimensions[1] - edgeZ
y1 == edgeY
y2 == dimensions[2] - edgeY
x1 == edgeX
x2 == dimensions[3] - edgeX

\* The check with > for >=: an edge that leaves an empty range passes.
EdgeErrorStrict == z1 > z2 \/ y1 > y2 \/ x1 > x2

EdgeError == z1 >= z2 \/ y1 >= y2 \/ x1 >= x2

\* ------------------------------------------------- parameter normalization
\* max(v, 2), then v += v % 2.
EvenSize(v) == LET m == Max(v, 2) IN m + (m % 2)

Normalize ==
    /\ pc = "start"
    /\ windowSpatial' = EvenSize(windowSpatial) \div 2
    \* line 33 takes its floor from windowSpatial (already floored by line 32)
    /\ windowSpectral' = EvenSize(Max(windowSpatial, 2)) \div 2
    /\ gridSpatial' = EvenSize(gridSpatial)
    /\ gridSpectral' = EvenSize(gridSpectral)
    /\ pc' = "check"
    /\ UNCHANGED <<cube, params, rms, rmsBound, i, lists, io, given, rmsArg, passes>>

\* ------------------------------------------------------ the edge check
EdgeMessage == "ERROR: Edge size exceeds cube size for at least one axis.\n"

\* The passes with the first two exchanged.
PassOrderYFirst == <<"scaleY", "scaleZ", "scaleX">>

\* The passes of the global method, in the order the code runs them.
PassOrder == <<"scaleZ", "scaleY", "scaleX">>

FirstPass == PassOrder[1]

\* The position after pass p has ended.
NextPass(p) ==
    LET n == CHOOSE m \in 1..Len(PassOrder) : PassOrder[m] = p
    IN  IF n < Len(PassOrder) THEN PassOrder[n + 1] ELSE "finish"

CheckEdges ==
    /\ pc = "check"
    /\ IF EdgeError
       THEN /\ stderr' = EdgeMessage
            /\ exitStatus' = 1
            /\ pc' = "exit"
       ELSE /\ pc' = IF method = "local" THEN "grid" ELSE FirstPass
            /\ UNCHANGED io
    /\ UNCHANGED <<cube, params, sizes, rms, rmsBound, i, lists, given, rmsArg, passes>>


\* ------------------------------------------------------- the global method
\* c[region] /= r
DivideSlice(c, b, r) == [v \in DOMAIN c |-> IF v \in Slice(b) THEN Div(c[v], r) ELSE c[v]]

\* The slice a pass measures the noise of plane n on, and the plane it divides.
RegionZ(n) == <<n, n + 1, y1, y2, x1, x2>>
\* The Z plane without the edge margins: the slice the noise is measured on.
PlaneZValidOnly(n) == <<n, n + 1, y1, y2, x1, x2>>
PlaneZ(n) == <<n, n + 1, 0, dimensions[2], 0, dimensions[3]>>
RegionY(n) == <<z1, z2, n, n + 1, x1, x2>>
PlaneY(n) == <<0, dimensions[1], n, n + 1, 0, dimensions[3]>>
RegionX(n) == <<z1, z2, y1, y2, n, n + 1>>
PlaneX(n) == <<0, dimensions[1], 0, dimensions[2], n, n + 1>>

\* rms = GetRMS(cube[region]); if rms > 0: cube[plane] /= rms
Measure(region, plane) ==
    \E r \in RmsVals :
        /\ rms' = r
        /\ rmsBound' = TRUE
        /\ rmsArg' = region
        /\ cube' = IF r > 0 THEN DivideSlice(cube, plane, r) ELSE cube

ScaleZ ==
    /\ pc = "scaleZ"
    /\ IF scaleZ /\ i < dimensions[1]
       THEN /\ IF ~AllNaN(cube, RegionZ(i))
               THEN Measure(RegionZ(i), PlaneZ(i))
               ELSE UNCHANGED <<cube, rms, rmsBound, rmsArg>>
            /\ i' = i + 1
            /\ UNCHANGED <<pc, passes>>
       ELSE /\ pc' = NextPass("scaleZ")
            /\ i' = 0
            /\ passes' = IF scaleZ THEN Append(passes, "Z") ELSE passes
            /\ UNCHANGED <<cube, rms, rmsBound, rmsArg>>
    /\ UNCHANGED <<params, sizes, lists, io, given>>

ScaleY ==
    /\ pc = "scaleY"
    /\ IF scaleY /\ i < dimensions[2]
       THEN /\ IF ~AllNaN(cube, RegionY(i))
               THEN Measure(RegionY(i), PlaneY(i))
               ELSE UNCHANGED <<cube, rms, rmsBound, rmsArg>>
            /\ i' = i + 1
            /\ UNCHANGED <<pc, passes>>
       ELSE /\ pc' = NextPass("scaleY")
            /\ i' = 0
            /\ passes' = IF scaleY THEN Append(passes, "Y") ELSE passes
            /\ UNCHANGED <<cube, rms, rmsBound, rmsArg>>
    /\ UNCHANGED <<params, sizes, lists, io, given>>

\* Line 124 is one level out of line 123's "if": it runs on every iteration,
\* with whatever rms holds, and raises UnboundLocalError if rms holds nothing.
ScaleX ==
    /\ pc = "scaleX"
    /\ IF scaleX /\ i < dimensions[3]
       THEN IF ~AllNaN(cube, RegionX(i))
            THEN /\ Measure(RegionX(i), PlaneX(i))
                 /\ i' = i + 1
                 /\ UNCHANGED <<pc, passes>>
            ELSE IF ~rmsBound
            THEN /\ pc' = "raise"
                 /\ UNCHANGED <<cube, rms, rmsBound, rmsArg, i, passes>>
            ELSE /\ cube' = IF rms > 0 THEN DivideSlice(cube, PlaneX(i), rms) ELSE cube
                 /\ i' = i + 1
                 /\ UNCHANGED <<pc, rms, rmsBound, rmsArg, passes>>
       ELSE /\ pc' = NextPass("scaleX")
            /\ i' = 0
            /\ passes' = IF scaleX THEN Append(passes, "X") ELSE passes
            /\ UNCHANGED <<cube, rms, rmsBound, rmsArg>>
    /\ UNCHANGED <<params, sizes, lists, io, given>>

\* The closing message and "return cube".
Finish ==
    /\ pc = "finish"
    /\ pc' = "done"
    /\ UNCHANGED <<cube, params, sizes, rms, rmsBound, i, lists, io, given, rmsArg, passes>>


\* -------------------------------------------------------- the local method
\* int(math.ceil(float(a) / float(b))), for a >= 1 and b >= 1
CeilDiv(a, b) == (a + b - 1) \div b

\* np.arange(start, stop, step)
Arange(start, stop, step) ==
    LET count == IF stop > start THEN (stop - start + step - 1) \div step ELSE 0
    IN  [n \in 1..count |-> start + (n - 1) * step]

\* The first grid point without the halving that centres the grid.
GridStartNotHalved(size, g) == size - g * (CeilDiv(size, g) - 1)

\* The first grid point of an axis of the given size, with grid cells g long.
GridStart(size, g) == (size - g * (CeilDiv(size, g) - 1)) \div 2

GridPoints(size, g) == Arange(GridStart(size, g), size, g)

\* The triples (z, y, x) in the order of the nested loops of lines 77-80, 89-91.
Triples(pz, py, px) ==
    LET ny == Len(py)
        nx == Len(px)
    IN  [n \in 1..(Len(pz) * ny * nx) |->
            <<pz[((n - 1) \div (ny * nx)) + 1],
              py[(((n - 1) \div nx) % ny) + 1],
              px[((n - 1) % nx) + 1]>>]

\* The grid cell of a grid point: the point -/+ the grid radii, clipped.
GridCell(p, spectral, spatial) ==
    <<Max(0, p[1] - spectral), Min(dimensions[1], p[1] + spectral),
      Max(0, p[2] - spatial), Min(dimensions[2], p[2] + spatial),
      Max(0, p[3] - spatial), Min(dimensions[3], p[3] + spatial)>>

\* The window one voxel short at its upper end on every axis.
WindowShort(p, spectral, spatial) ==
    <<Max(0, p[1] - spectral), Min(dimensions[1], p[1] + spectral - 1),
      Max(0, p[2] - spatial), Min(dimensions[2], p[2] + spatial - 1),
      Max(0, p[3] - spatial), Min(dimensions[3], p[3] + spatial - 1)>>

\* The window of a grid point: the point -/+ the window radii, clipped.
Window(p, spectral, spatial) ==
    <<Max(0, p[1] - spectral), Min(dimensions[1], p[1] + spectral),
      Max(0, p[2] - spatial), Min(dimensions[2], p[2] + spatial),
      Max(0, p[3] - spatial), Min(dimensions[3], p[3] + spatial)>>

BuildGrid ==
    /\ pc = "grid"
    /\ rms_cube' = [v \in Voxels |-> 0]
    /\ LET gridPoints == Triples(GridPoints(dimensions[1], gridSpectral),
                                 GridPoints(dimensions[2], gridSpatial),
                                 GridPoints(dimensions[3], gridSpatial))
       IN  /\ gridSpatial' = gridSpatial \div 2
           /\ gridSpectral' = gridSpectral \div 2
           /\ gridList' = [n \in DOMAIN gridPoints |->
                              GridCell(gridPoints[n], gridSpectral', gridSpatial')]
           /\ windowList' = [n \in DOMAIN gridPoints |->
                                Window(gridPoints[n], windowSpectral, windowSpatial)]
    /\ k' = 0
    /\ pc' = "iterate"
    /\ UNCHANGED <<cube, params, windowSpatial, windowSpectral, rms, rmsBound, i, io,
                   given, rmsArg, passes>>

\* One turn of the loop of lines 96-98.
Iterate ==
    /\ pc = "iterate"
    /\ k < Len(gridList)
    /\ LET grid == gridList[k + 1]
           window == windowList[k + 1]
       IN  IF ~AllNaN(cube, window)
           THEN \E r \in RmsVals :
                    /\ rms_cube' = [v \in Voxels |->
                                       IF v \in Slice(grid) THEN r ELSE rms_cube[v]]
                    /\ rmsArg' = window
           ELSE UNCHANGED <<rms_cube, rmsArg>>
    /\ k' = k + 1
    /\ UNCHANGED <<pc, cube, params, sizes, rms, rmsBound, i, gridList, windowList, io,
                   given, passes>>

\* cube /= rms_cube, once the loop has ended.
Divide ==
    /\ pc = "iterate"
    /\ k = Len(gridList)
    /\ cube' = [v \in Voxels |-> Div(cube[v], rms_cube[v])]
    /\ pc' = "finish"
    /\ UNCHANGED <<params, sizes, rms, rmsBound, i, lists, io, given, rmsArg, passes>>

\* ------------------------------------------------------------ the calls
DefaultSizes ==
    [windowSpatial |-> 20, windowSpectral |-> 20, gridSpatial |-> 10, gridSpectral |-> 10]

\* The state a call starts in, given its arguments.
Call(dim, c, flags, edges, m, a) ==
    /\ pc = "start"
    /\ dimensions = dim
    /\ cube = c
    /\ cube0 = c
    /\ scaleX = flags[1] /\ scaleY = flags[2] /\ scaleZ = flags[3]
    /\ edgeX = edges[1] /\ edgeY = edges[2] /\ edgeZ = edges[3]
    /\ method = m
    /\ args = a
    /\ windowSpatial = a.windowSpatial
    /\ windowSpectral = a.windowSpectral
    /\ gridSpatial = a.gridSpatial
    /\ gridSpectral = a.gridSpectral
    /\ rms = 0
    /\ rmsBound = FALSE
    /\ i = 0
    /\ rms_cube = << >>
    /\ gridList = << >>
    /\ windowList = << >>
    /\ k = 0
    /\ stderr = ""
    /\ exitStatus = 0
    /\ rmsArg = << >>
    /\ passes = << >>

Shapes == {d \in (1..MaxLen) \X (1..MaxLen) \X (1..MaxLen) :
              d[1] * d[2] * d[3] <= MaxVoxels}

Edges == (0..MaxEdge) \X (0..MaxEdge) \X (0..MaxEdge)

\* Full runs: every cube of at most MaxVoxels voxels, each NaN or 1; the
\* global method with every choice of axes, the local method with every
\* window and grid size of 1..MaxSize.
Init ==
    \E dim \in Shapes, edges \in Edges :
    \E c \in [VoxelsOf(dim) -> {NaN, Num(1, 1)}] :
        \/ \E flags \in BOOLEAN \X BOOLEAN \X BOOLEAN :
               Call(dim, c, flags, edges, "global", DefaultSizes)
        \/ \E w \in 1..MaxSize, g \in 1..MaxSize :
               Call(dim, c, <<FALSE, FALSE, TRUE>>, edges, "local",
                    [windowSpatial |-> w, windowSpectral |-> w,
                     gridSpatial |-> g, gridSpectral |-> g])

Next ==
    \/ Normalize
    \/ CheckEdges
    \/ ScaleZ
    \/ ScaleY
    \/ ScaleX
    \/ BuildGrid
    \/ Iterate
    \/ Divide
    \/ Finish

Spec == Init /\ [][Next]_vars


\* Grid construction runs: the local method up to the end of line 93, on a
\* cube of ones of every shape up to MaxDim on each axis, with each of the
\* four window and grid arguments drawn independently from 1..MaxArg.
Sizes == 1..MaxArg

InitGrid ==
    \E dim \in (1..MaxDim) \X (1..MaxDim) \X (1..MaxDim) :
    \E ws \in Sizes, wz \in Sizes, gs \in Sizes, gz \in Sizes :
        Call(dim, [v \in VoxelsOf(dim) |-> Num(1, 1)], <<FALSE, FALSE, TRUE>>,
             <<0, 0, 0>>, "local",
             [windowSpatial |-> ws, windowSpectral |-> wz,
              gridSpatial |-> gs, gridSpectral |-> gz])

NextGrid ==
    \/ Normalize
    \/ CheckEdges
    \/ BuildGrid

SpecGrid == InitGrid /\ [][NextGrid]_vars


\* ------------------------------------------------------------ the claims
\* The voxels of the plane at index n of an axis (1: Z, 2: Y, 3: X), over the
\* full extent of the other two axes.
FullPlane(axis, n) == {v \in Voxels : v[axis] = n}

\* A turn of the loop of a pass of the global method, at plane i.
TurnZ == pc = "scaleZ" /\ scaleZ /\ i < dimensions[1]
TurnY == pc = "scaleY" /\ scaleY /\ i < dimensions[2]
TurnX == pc = "scaleX" /\ scaleX /\ i < dimensions[3]

\* The plane at index i, restricted to the non-edge range of the other axes.
ValidZ == {v \in FullPlane(1, i) : y1 <= v[2] /\ v[2] < y2 /\ x1 <= v[3] /\ v[3] < x2}
ValidY == {v \in FullPlane(2, i) : z1 <= v[1] /\ v[1] < z2 /\ x1 <= v[3] /\ v[3] < x2}
ValidX == {v \in FullPlane(3, i) : z1 <= v[1] /\ v[1] < z2 /\ y1 <= v[2] /\ v[2] < y2}

SomeNumber(S) == \E v \in S : ~IsNaN(cube[v])

Unchanged(S) == \A v \in S : cube'[v] = cube[v]

\* C1: an edge that leaves no range on some axis (lo >= hi) ends the call in
\* the fatal error (message, exit status 1) with the cube as it was given and
\* nothing returned, whatever the method; with lo < hi on all three axes the
\* call never enters that error.
C1_EdgeCheck ==
    /\ (z1 >= z2 \/ y1 >= y2 \/ x1 >= x2) =>
           /\ pc \in {"start", "check", "exit"}
           /\ cube = cube0
           /\ pc = "exit" => exitStatus = 1 /\ stderr = EdgeMessage
    /\ (z1 < z2 /\ y1 < y2 /\ x1 < x2) =>
           pc # "exit" /\ exitStatus = 0 /\ stderr = ""

\* C1's case: the local method has exited because the Z edge alone is too large.
C1_Witness ==
    /\ pc = "exit"
    /\ method = "local"
    /\ z1 >= z2 /\ y1 < y2 /\ x1 < x2
    /\ \E v \in Voxels : ~IsNaN(cube[v])

\* C2: no step divides a voxel by a noise value <= 0: the local division
\* leaves a voxel alone where the noise map holds a value <= 0, and a turn of
\* a global pass that made no estimate, or an estimate <= 0, leaves the cube
\* alone.
C2_NoDivisionByNonPositive ==
    [][/\ (pc = "iterate" /\ pc' = "finish") =>
              \A v \in Voxels : rms_cube[v] <= 0 => cube'[v] = cube[v]
       /\ (TurnZ /\ (~SomeNumber(ValidZ) \/ rms' <= 0)) => cube' = cube
       /\ (TurnY /\ (~SomeNumber(ValidY) \/ rms' <= 0)) => cube' = cube
       /\ (TurnX /\ (~SomeNumber(ValidX) \/ rms' <= 0)) => cube' = cube]_vars

\* C3: a turn of a global pass (Z, Y or X) whose plane is all NaN over the
\* non-edge range of the other two axes leaves every voxel of the full plane
\* as it is.
C3_AllNaNPlaneUntouched ==
    [][/\ (TurnZ /\ ~SomeNumber(ValidZ)) => Unchanged(FullPlane(1, i))
       /\ (TurnY /\ ~SomeNumber(ValidY)) => Unchanged(FullPlane(2, i))
       /\ (TurnX /\ ~SomeNumber(ValidX)) => Unchanged(FullPlane(3, i))]_vars

\* C4: in the local method, a grid cell whose window is all NaN keeps 0 in the
\* noise map, and after the division every voxel of the cell holds the value
\* the cube was given.
C4_AllNaNWindowKeepsCell ==
    (method = "local" /\ pc \in {"finish", "done"}) =>
        \A n \in DOMAIN gridList :
            (\A w \in Slice(windowList[n]) : IsNaN(cube0[w])) =>
                \A v \in Slice(gridList[n]) : rms_cube[v] = 0 /\ cube[v] = cube0[v]

\* C5: the grid cells partition the cube: every voxel lies in exactly one.
C5_GridPartition ==
    pc = "iterate" =>
        \A v \in Voxels :
            Cardinality({n \in DOMAIN gridList :
                            /\ gridList[n][1] <= v[1] /\ v[1] < gridList[n][2]
                            /\ gridList[n][3] <= v[2] /\ v[2] < gridList[n][4]
                            /\ gridList[n][5] <= v[3] /\ v[3] < gridList[n][6]}) = 1

\* C5's case: several cells along every axis, one of them clipped by the cube.
C5_Witness ==
    /\ pc = "iterate"
    /\ Len(gridList) >= 8
    /\ gridList[1][2] - gridList[1][1] < 2 * gridSpectral
    /\ gridList[1][4] - gridList[1][3] < 2 * gridSpatial
    /\ gridList[Len(gridList)][6] - gridList[Len(gridList)][5] < 2 * gridSpatial


\* What a turn of a pass that measures does: the estimate is made on the
\* valid part of the plane alone; if it is > 0 every voxel of the full plane
\* is divided by it, otherwise the plane is as it was; no other plane changes.
MeasuredTurn(valid, plane, region) ==
    SomeNumber(valid) =>
        /\ rmsArg' = region
        /\ Slice(region) = valid
        /\ rms' > 0 => \A v \in plane : cube'[v] = Div(cube[v], rms')
        /\ rms' <= 0 => Unchanged(plane)
        /\ Unchanged(Voxels \ plane)

\* C6: in the Z pass the noise of plane i is measured on cube[i, y1:y2, x1:x2]
\* only; a measured rms > 0 divides every voxel of cube[i, :, :], edge
\* margins included, and no other plane; a measured rms <= 0 changes nothing.
\* The Y and X passes do the same with the axes permuted.
C6_PlaneScaling ==
    [][/\ TurnZ => MeasuredTurn(ValidZ, FullPlane(1, i), <<i, i + 1, y1, y2, x1, x2>>)
       /\ TurnY => MeasuredTurn(ValidY, FullPlane(2, i), <<z1, z2, i, i + 1, x1, x2>>)
       /\ TurnX => MeasuredTurn(ValidX, FullPlane(3, i), <<z1, z2, y1, y2, i, i + 1>>)]_vars

\* C6's case: the Z pass has just divided plane 0 by an rms > 1 measured with
\* the Y edges left out, and a voxel of the Y edge margin has been divided too.
C6_Witness ==
    /\ pc = "scaleZ" /\ scaleZ /\ i = 1
    /\ rmsBound /\ rms > 1
    /\ edgeY > 0
    /\ rmsArg = <<0, 1, y1, y2, x1, x2>>
    /\ \E v \in Voxels :
           /\ v[1] = 0 /\ v[2] < y1
           /\ ~IsNaN(cube0[v])
           /\ cube[v] = Div(cube0[v], rms)
           /\ cube[v] # cube0[v]

\* The passes that are switched on, among Z, Y, X in this order, up to the
\* n-th.
EnabledUpTo(n) ==
    (IF scaleZ /\ n >= 1 THEN <<"Z">> ELSE << >>)
        \o (IF scaleY /\ n >= 2 THEN <<"Y">> ELSE << >>)
        \o (IF scaleX /\ n >= 3 THEN <<"X">> ELSE << >>)

\* C7: the passes run in the order Z, Y, X: while the Z pass runs no pass has
\* ended; while the Y pass runs the Z pass (if switched on) has ended and no
\* other; while the X pass runs the Z and Y passes (if switched on) have
\* ended, in this order; so a pass measures the cube the earlier ones left.
C7_PassOrder ==
    /\ pc = "scaleZ" => passes = EnabledUpTo(0)
    /\ pc = "scaleY" => passes = EnabledUpTo(1)
    /\ pc = "scaleX" => passes = EnabledUpTo(2)
    /\ (method = "global" /\ pc \in {"finish", "done"}) => passes = EnabledUpTo(3)

\* C7's case: the X pass is measuring a cube that the Z pass and then the Y
\* pass have both divided.
C7_Witness ==
    /\ pc = "scaleX" /\ scaleX /\ i = 1
    /\ passes = <<"Z", "Y">>
    /\ rmsArg = <<z1, z2, y1, y2, 0, 1>>
    /\ \E v \in Voxels : cube[v].k = "num" /\ cube[v].d >= 8

\* max(v, 2) rounded up to the nearest even integer.
EvenAtLeast2(v) == CHOOSE e \in 2..(v + 3) :
                       /\ e % 2 = 0
                       /\ e >= v
                       /\ \A f \in 2..(v + 3) : (f % 2 = 0 /\ f >= v) => e <= f

\* C8: each of the four sizes is normalized on its own: the radius the window
\* bounds use is half of max(v, 2) rounded up to even, v being the argument of
\* the same name, and so is the grid radius (the grid size until line 83).
C8_IndependentNormalization ==
    pc # "start" =>
        /\ windowSpatial = EvenAtLeast2(args.windowSpatial) \div 2
        /\ windowSpectral = EvenAtLeast2(args.windowSpectral) \div 2
        /\ gridSpatial = IF pc = "iterate" THEN EvenAtLeast2(args.gridSpatial) \div 2
                         ELSE EvenAtLeast2(args.gridSpatial)
        /\ gridSpectral = IF pc = "iterate" THEN EvenAtLeast2(args.gridSpectral) \div 2
                          ELSE EvenAtLeast2(args.gridSpectral)

\* b holds a on the axis whose lower bound is at position lo of the tuples.
Holds(b, a, lo) == b[lo] <= a[lo] /\ a[lo + 1] <= b[lo + 1]

\* C9: the window of every grid point holds its grid cell on every axis.
C9_WindowHoldsCell ==
    pc = "iterate" =>
        \A n \in DOMAIN gridList :
            /\ Holds(windowList[n], gridList[n], 1)
            /\ Holds(windowList[n], gridList[n], 3)
            /\ Holds(windowList[n], gridList[n], 5)

\* C9, amended: the window of every grid point holds its grid cell on every
\* axis on which the window radius the code uses is at least the grid radius.
C9_WindowHoldsCellIfWider ==
    pc = "iterate" =>
        \A n \in DOMAIN gridList :
            /\ windowSpectral >= gridSpectral => Holds(windowList[n], gridList[n], 1)
            /\ windowSpatial >= gridSpatial =>
                   /\ Holds(windowList[n], gridList[n], 3)
                   /\ Holds(windowList[n], gridList[n], 5)

\* C9's case: several grid points, the window radius at least the grid radius
\* on every axis, and a window that the cube clips below and above.
C9_Witness ==
    /\ pc = "iterate"
    /\ Len(gridList) >= 4
    /\ windowSpectral >= gridSpectral
    /\ windowSpatial > gridSpatial
    /\ \E n \in DOMAIN windowList :
           /\ windowList[n][6] - windowList[n][5] < 2 * windowSpatial
           /\ windowList[n][5] = 0 /\ windowList[n][6] = dimensions[3]
           /\ gridList[n][5] > 0

\* C10: a call of the global method with valid edges never reads rms before
\* a measurement has assigned it, so it never ends in an exception.
C10_RmsAssignedBeforeRead ==
    (method = "global" /\ ~EdgeError) => pc # "raise"

====
